---- MODULE Spec2Model ----
(***************************************************************************)
(* Model of scripts/notarize_rest.py: one run of the notarization          *)
(* pipeline (parse arguments, check dependencies, make the JWT, digest     *)
(* the file, submit, upload, poll, fetch the log, staple and validate).    *)
(* The remote service, the file system and the stapler are the             *)
(* environment: every answer they can give is a nondeterministic choice.   *)
(***************************************************************************)
EXTENDS Integers, Sequences, FiniteSets, TLC

\* ---- bounds of the model ------------------------------------------------
MaxAttempts == 3       \* poll attempts explored in one run
MaxStartClock == 5     \* latest wall-clock tick at which a run starts
ClockRes == 2          \* clock ticks per second (time.time() is fractional)

\* ---- constants of the program -------------------------------------------
TokenLifetime == 1200
ChunkSize == 65536
DefaultInterval == 30

Deps == {"pyjwt", "boto3", "requests"}
TerminalStatuses == {"Accepted", "Rejected", "Invalid"}
\* what the status field of a poll response can hold: the documented
\* values and values the loop does not know
Statuses == TerminalStatuses \cup {"In Progress", "accepted", "Unknown"}
\* --poll-interval is type=int: any integer is accepted
Intervals == {-1, 0, DefaultInterval}
ArgvKinds == {"ok", "help", "usage"}

\* ---- file contents as runs <<byte, count>> -------------------------------
\* A content is a sequence of runs, adjacent runs of different bytes, every
\* count positive; <<>> is b"".
RECURSIVE RLen(_)
RLen(d) == IF d = <<>> THEN 0 ELSE d[1][2] + RLen(Tail(d))

RECURSIVE RTake(_, _)
RTake(d, n) ==
    IF n <= 0 \/ d = <<>> THEN <<>>
    ELSE IF d[1][2] <= n THEN <<d[1]>> \o RTake(Tail(d), n - d[1][2])
    ELSE << <<d[1][1], n>> >>

RECURSIVE RDrop(_, _)
RDrop(d, n) ==
    IF n <= 0 \/ d = <<>> THEN d
    ELSE IF d[1][2] <= n THEN RDrop(Tail(d), n - d[1][2])
    ELSE << <<d[1][1], d[1][2] - n>> >> \o Tail(d)

RCat(a, b) ==
    IF a = <<>> THEN b
    ELSE IF b = <<>> THEN a
    ELSE IF a[Len(a)][1] = b[1][1]
         THEN SubSeq(a, 1, Len(a) - 1)
              \o << <<b[1][1], a[Len(a)][2] + b[1][2]>> >> \o Tail(b)
         ELSE a \o b

\* the files a run is given: empty, one byte, around one chunk, around two
Files ==
    { <<>>,
      << <<7, 1>> >>,
      << <<7, ChunkSize - 1>> >>,
      << <<7, ChunkSize>> >>,
      << <<7, ChunkSize>>, <<9, 1>> >>,
      << <<7, 5>>, <<9, 2 * ChunkSize>> >> }

\* ---- hashlib.sha256 -------------------------------------------------------
\* The hash object holds what was fed to it; feeding a then b is feeding
\* a + b; the digest is the SHA-256 of the bytes fed, named by those bytes.
Sha256New == <<>>
\* a hash object started afresh for every chunk
Sha256Update_Restarts(h, chunk) == chunk
Sha256Update(h, chunk) == RCat(h, chunk)
HexDigest(h) == [alg |-> "sha256", of |-> h]
NoDigest == [alg |-> "", of |-> <<>>]

\* f.read(n) at offset pos
FileRead(f, pos, n) == RTake(RDrop(f, pos), n)

\* ---- the token ------------------------------------------------------------
KeyId == "KID"
IssuerId == "ISS"
NoToken == [kid |-> "", iss |-> "", iat |-> -1, exp |-> -1, aud |-> ""]

\* int(time.time())
Now(clk) == clk \div ClockRes

\* the payload with the lifetime written in minutes
JwtPayload_Minutes(now, issuer_id) ==
    [iss |-> issuer_id, iat |-> now, exp |-> now + 20,
     aud |-> "appstoreconnect-v1"]

JwtPayload(now, issuer_id) ==
    [iss |-> issuer_id, iat |-> now, exp |-> now + TokenLifetime,
     aud |-> "appstoreconnect-v1"]

\* jwt.encode: the header's kid with the claims of the payload
JwtEncode(payload, key_id) ==
    [kid |-> key_id, iss |-> payload.iss, iat |-> payload.iat,
     exp |-> payload.exp, aud |-> payload.aud]

\* the exp claim has passed at clock clk
Expired(tok, clk) == tok # NoToken /\ Now(clk) >= tok.exp

VARIABLES
    pc,         \* where main is
    argv,       \* the command line: accepted, --help, or rejected
    argInterval,\* the --poll-interval the command line gives
    missing,    \* the dependencies that cannot be imported
    file,       \* the content of --file
    clock,      \* wall clock, in ticks
    interval,   \* args.poll_interval
    token,      \* main's token
    jwtCalls,   \* number of calls of make_jwt
    h,          \* sha256_file's hash object
    fpos,       \* sha256_file's read offset
    sha256,     \* main's sha256
    calls,      \* the remote calls and subprocesses started, in order
    attempt,    \* poll_status's attempt
    lastPoll,   \* outcome of the last poll attempt
    status,     \* main's status
    log,        \* main's log
    stapleRc,   \* result.returncode
    validateRc, \* result2.returncode
    err,        \* the stage that raised, if any
    exitCode    \* the process's exit code, -1 while it runs

vars == <<pc, argv, argInterval, missing, file, clock, interval, token,
          jwtCalls, h, fpos, sha256, calls, attempt, lastPoll, status, log,
          stapleRc, validateRc, err, exitCode>>

Call(op, tok) == [op |-> op, token |-> tok]

Init ==
    /\ pc = "parse_args"
    /\ argv \in ArgvKinds
    /\ argInterval \in Intervals
    /\ missing \in SUBSET Deps
    /\ file \in Files
    /\ clock \in 0..MaxStartClock
    /\ interval = DefaultInterval
    /\ token = NoToken
    /\ jwtCalls = 0
    /\ h = Sha256New
    /\ fpos = 0
    /\ sha256 = NoDigest
    /\ calls = <<>>
    /\ attempt = 0
    /\ lastPoll = ""
    /\ status = ""
    /\ log = ""
    /\ stapleRc = -1
    /\ validateRc = -1
    /\ err = ""
    /\ exitCode = -1

\* sys.exit(code)
Exit(code) == pc' = "done" /\ exitCode' = code

\* an exception nobody catches: traceback, exit code 1
Raise(stage) == pc' = "done" /\ exitCode' = 1 /\ err' = stage

\* parser.parse_args(): --help prints and exits 0, a rejected command line
\* exits 2
ParseArgs ==
    /\ pc = "parse_args"
    /\ IF argv = "help" THEN Exit(0) /\ UNCHANGED interval
       ELSE IF argv = "usage" THEN Exit(2) /\ UNCHANGED interval
       ELSE pc' = "check_deps" /\ interval' = argInterval /\ UNCHANGED exitCode
    /\ UNCHANGED <<argv, argInterval, missing, file, clock, token, jwtCalls,
                   h, fpos, sha256, calls, attempt, lastPoll, status, log,
                   stapleRc, validateRc, err>>

\* CheckDeps without the import test of requests
CheckDeps_ForgetsRequests ==
    /\ pc = "check_deps"
    /\ IF missing \ {"requests"} # {} THEN Exit(1)
       ELSE pc' = "make_jwt" /\ UNCHANGED exitCode
    /\ UNCHANGED <<argv, argInterval, missing, file, clock, interval, token,
                   jwtCalls, h, fpos, sha256, calls, attempt, lastPoll,
                   status, log, stapleRc, validateRc, err>>

CheckDeps ==
    /\ pc = "check_deps"
    /\ IF missing # {} THEN Exit(1)
       ELSE pc' = "make_jwt" /\ UNCHANGED exitCode
    /\ UNCHANGED <<argv, argInterval, missing, file, clock, interval, token,
                   jwtCalls, h, fpos, sha256, calls, attempt, lastPoll,
                   status, log, stapleRc, validateRc, err>>

\* make_jwt: the key file may be unreadable or the key malformed
MakeJwt ==
    /\ pc = "make_jwt"
    /\ jwtCalls' = jwtCalls + 1
    /\ \E keyOk \in BOOLEAN :
         IF keyOk
         THEN /\ token' = JwtEncode(JwtPayload(Now(clock), IssuerId), KeyId)
              /\ pc' = "sha256_open"
              /\ UNCHANGED <<exitCode, err>>
         ELSE Raise("make_jwt") /\ UNCHANGED token
    /\ UNCHANGED <<argv, argInterval, missing, file, clock, interval, h, fpos,
                   sha256, calls, attempt, lastPoll, status, log, stapleRc,
                   validateRc>>

\* sha256_file: open(path, "rb") fails when the file cannot be read
Sha256Open ==
    /\ pc = "sha256_open"
    /\ \E openOk \in BOOLEAN :
         IF openOk
         THEN /\ h' = Sha256New
              /\ fpos' = 0
              /\ pc' = "sha256_read"
              /\ UNCHANGED <<exitCode, err>>
         ELSE Raise("sha256_file") /\ UNCHANGED <<h, fpos>>
    /\ UNCHANGED <<argv, argInterval, missing, file, clock, interval, token,
                   jwtCalls, sha256, calls, attempt, lastPoll, status, log,
                   stapleRc, validateRc>>

\* one turn of  for chunk in iter(lambda: f.read(65536), b""): h.update(chunk)
\* and, when read gives b"", return h.hexdigest()
Sha256Read ==
    /\ pc = "sha256_read"
    /\ LET chunk == FileRead(file, fpos, ChunkSize) IN
         IF chunk = <<>>
         THEN /\ sha256' = HexDigest(h)
              /\ pc' = "submit"
              /\ UNCHANGED <<h, fpos>>
         ELSE /\ h' = Sha256Update(h, chunk)
              /\ fpos' = fpos + RLen(chunk)
              /\ UNCHANGED <<sha256, pc>>
    /\ UNCHANGED <<argv, argInterval, missing, file, clock, interval, token,
                   jwtCalls, calls, attempt, lastPoll, status, log, stapleRc,
                   validateRc, err, exitCode>>

\* Submit followed by polling, the upload left out
Submit_SkipsUpload ==
    /\ pc = "submit"
    /\ calls' = Append(calls, Call("submit", token))
    /\ \E ok \in BOOLEAN :
         IF ok THEN pc' = "poll" /\ UNCHANGED <<exitCode, err>>
         ELSE Raise("submit")
    /\ UNCHANGED <<argv, argInterval, missing, file, clock, interval, token,
                   jwtCalls, h, fpos, sha256, attempt, lastPoll, status, log,
                   stapleRc, validateRc>>

\* submit, and main's reading of the answer: a failed request, an error
\* status or an answer without data/attributes/id raises
Submit ==
    /\ pc = "submit"
    /\ calls' = Append(calls, Call("submit", token))
    /\ \E ok \in BOOLEAN :
         IF ok THEN pc' = "upload" /\ UNCHANGED <<exitCode, err>>
         ELSE Raise("submit")
    /\ UNCHANGED <<argv, argInterval, missing, file, clock, interval, token,
                   jwtCalls, h, fpos, sha256, attempt, lastPoll, status, log,
                   stapleRc, validateRc>>

\* the time s3.upload_file can take: none to speak of, or more than the
\* lifetime of the token
UploadSeconds == {0, TokenLifetime + 300}

\* UploadToS3 with one more try after a failed transfer
UploadToS3_RetriesOnce ==
    /\ pc = "upload"
    /\ calls' = Append(calls, Call("upload", NoToken))
    /\ \E dt \in UploadSeconds : clock' = clock + dt * ClockRes
    /\ \E ok \in BOOLEAN :
         IF ok THEN pc' = "poll" /\ UNCHANGED <<exitCode, err>>
         ELSE IF Len(calls) < 2 THEN UNCHANGED <<pc, exitCode, err>>
         ELSE Raise("upload_to_s3")
    /\ UNCHANGED <<argv, argInterval, missing, file, interval, token,
                   jwtCalls, h, fpos, sha256, attempt, lastPoll, status, log,
                   stapleRc, validateRc>>

\* upload_to_s3 uses the credentials of the submission, not the token;
\* the transfer takes time
UploadToS3 ==
    /\ pc = "upload"
    /\ calls' = Append(calls, Call("upload", NoToken))
    /\ \E dt \in UploadSeconds : clock' = clock + dt * ClockRes
    /\ \E ok \in BOOLEAN :
         IF ok THEN pc' = "poll" /\ UNCHANGED <<exitCode, err>>
         ELSE Raise("upload_to_s3")
    /\ UNCHANGED <<argv, argInterval, missing, file, interval, token,
                   jwtCalls, h, fpos, sha256, attempt, lastPoll, status, log,
                   stapleRc, validateRc>>

\* what one poll attempt can end in besides a status: the request raises,
\* raise_for_status raises, the body is not the expected JSON
PollErrors == {"error:request", "error:http", "error:body"}

\* the test  status != "In Progress"  in place of the membership test
IsTerminal_NotInProgress(s) == s # "In Progress"

\* status in ("Accepted", "Rejected", "Invalid")
IsTerminal(s) == s \in TerminalStatuses

\* one turn of poll_status's loop up to the return or the end of the try
PollAttempt ==
    /\ pc = "poll"
    /\ attempt < MaxAttempts
    /\ attempt' = attempt + 1
    /\ calls' = Append(calls, Call("poll", token))
    /\ \E r \in PollErrors \cup Statuses :
         /\ lastPoll' = r
         /\ IF r \in Statuses /\ IsTerminal(r)
            THEN status' = r /\ pc' = "get_log"
            ELSE pc' = "sleep" /\ UNCHANGED status
    /\ UNCHANGED <<argv, argInterval, missing, file, clock, interval, token,
                   jwtCalls, h, fpos, sha256, log, stapleRc, validateRc, err,
                   exitCode>>

\* Sleep followed by a new token for the next attempt
Sleep_RefreshesToken ==
    /\ pc = "sleep"
    /\ IF interval < 0
       THEN Raise("sleep") /\ UNCHANGED <<clock, token>>
       ELSE /\ clock' = clock + interval * ClockRes
            /\ token' = JwtEncode(JwtPayload(Now(clock'), IssuerId), KeyId)
            /\ pc' = "poll"
            /\ UNCHANGED <<exitCode, err>>
    /\ UNCHANGED <<argv, argInterval, missing, file, interval,
                   jwtCalls, h, fpos, sha256, calls, attempt, lastPoll,
                   status, log, stapleRc, validateRc>>

\* time.sleep(interval), outside the try: a negative interval raises
\* ValueError
Sleep ==
    /\ pc = "sleep"
    /\ IF interval < 0
       THEN Raise("sleep") /\ UNCHANGED clock
       ELSE /\ clock' = clock + interval * ClockRes
            /\ pc' = "poll"
            /\ UNCHANGED <<exitCode, err>>
    /\ UNCHANGED <<argv, argInterval, missing, file, interval, token,
                   jwtCalls, h, fpos, sha256, calls, attempt, lastPoll,
                   status, log, stapleRc, validateRc>>

\* get_log fails on an error response, an answer without developerLogUrl,
\* or a log that cannot be fetched or is not JSON
LogErrors == {"error:http", "error:nourl", "error:fetch"}
\* the JSON it returns: an object without issues, with warnings, with
\* errors, or something that is not an object of issue objects
Logs == {"empty", "warnings", "errors", "malformed"}

\* GetLog with the failure caught and an empty log in its place
GetLog_FallsBackToEmpty ==
    /\ pc = "get_log"
    /\ calls' = Append(calls, Call("get_log", token))
    /\ \E r \in LogErrors \cup Logs :
         IF r \in Logs
         THEN log' = r /\ pc' = "verdict" /\ UNCHANGED <<exitCode, err>>
         ELSE /\ log' = "empty"
              /\ err' = "get_log"
              /\ pc' = "verdict"
              /\ UNCHANGED exitCode
    /\ UNCHANGED <<argv, argInterval, missing, file, clock, interval, token,
                   jwtCalls, h, fpos, sha256, attempt, lastPoll, status,
                   stapleRc, validateRc>>

GetLog ==
    /\ pc = "get_log"
    /\ calls' = Append(calls, Call("get_log", token))
    /\ \E r \in LogErrors \cup Logs :
         IF r \in Logs
         THEN log' = r /\ pc' = "verdict" /\ UNCHANGED <<exitCode, err>>
         ELSE Raise("get_log") /\ UNCHANGED log
    /\ UNCHANGED <<argv, argInterval, missing, file, clock, interval, token,
                   jwtCalls, h, fpos, sha256, attempt, lastPoll, status,
                   stapleRc, validateRc>>

\* Verdict with the test  status != "Rejected"  in place of
\* status == "Accepted"
Verdict_NotRejected ==
    /\ pc = "verdict"
    /\ IF log = "malformed" THEN Raise("verdict")
       ELSE IF status # "Rejected"
            THEN pc' = "staple" /\ UNCHANGED <<exitCode, err>>
            ELSE Exit(1) /\ UNCHANGED err
    /\ UNCHANGED <<argv, argInterval, missing, file, clock, interval, token,
                   jwtCalls, h, fpos, sha256, calls, attempt, lastPoll,
                   status, log, stapleRc, validateRc>>

\* main, lines 175-190 up to the call of staple: log.get / i.get raise on a
\* log that is not an object of issue objects
Verdict ==
    /\ pc = "verdict"
    /\ IF log = "malformed" THEN Raise("verdict")
       ELSE IF status = "Accepted"
            THEN pc' = "staple" /\ UNCHANGED <<exitCode, err>>
            ELSE Exit(1) /\ UNCHANGED err
    /\ UNCHANGED <<argv, argInterval, missing, file, clock, interval, token,
                   jwtCalls, h, fpos, sha256, calls, attempt, lastPoll,
                   status, log, stapleRc, validateRc>>

\* what subprocess.run gives: a return code, or it raises (no xcrun)
ReturnCodes == {0, 1}

\* Staple without the exit on a non-zero return code
Staple_KeepsGoing ==
    /\ pc = "staple"
    /\ calls' = Append(calls, Call("staple", NoToken))
    /\ \/ \E rc \in ReturnCodes :
            /\ stapleRc' = rc
            /\ pc' = "validate"
            /\ UNCHANGED <<exitCode, err>>
       \/ Raise("staple") /\ UNCHANGED stapleRc
    /\ UNCHANGED <<argv, argInterval, missing, file, clock, interval, token,
                   jwtCalls, h, fpos, sha256, attempt, lastPoll, status, log,
                   validateRc>>

\* staple, first subprocess
Staple ==
    /\ pc = "staple"
    /\ calls' = Append(calls, Call("staple", NoToken))
    /\ \/ \E rc \in ReturnCodes :
            /\ stapleRc' = rc
            /\ IF rc # 0 THEN Exit(1) ELSE pc' = "validate" /\ UNCHANGED exitCode
            /\ UNCHANGED err
       \/ Raise("staple") /\ UNCHANGED stapleRc
    /\ UNCHANGED <<argv, argInterval, missing, file, clock, interval, token,
                   jwtCalls, h, fpos, sha256, attempt, lastPoll, status, log,
                   validateRc>>

\* Validate without the test of result2.returncode
Validate_IgnoresRc ==
    /\ pc = "validate"
    /\ calls' = Append(calls, Call("validate", NoToken))
    /\ \/ \E rc \in ReturnCodes :
            /\ validateRc' = rc
            /\ Exit(0)
            /\ UNCHANGED err
       \/ Raise("validate") /\ UNCHANGED validateRc
    /\ UNCHANGED <<argv, argInterval, missing, file, clock, interval, token,
                   jwtCalls, h, fpos, sha256, attempt, lastPoll, status, log,
                   stapleRc>>

\* staple, second subprocess; then main returns and the process exits 0
Validate ==
    /\ pc = "validate"
    /\ calls' = Append(calls, Call("validate", NoToken))
    /\ \/ \E rc \in ReturnCodes :
            /\ validateRc' = rc
            /\ IF rc # 0 THEN Exit(1) ELSE Exit(0)
            /\ UNCHANGED err
       \/ Raise("validate") /\ UNCHANGED validateRc
    /\ UNCHANGED <<argv, argInterval, missing, file, clock, interval, token,
                   jwtCalls, h, fpos, sha256, attempt, lastPoll, status, log,
                   stapleRc>>

Next ==
    \/ ParseArgs
    \/ CheckDeps
    \/ MakeJwt
    \/ Sha256Open
    \/ Sha256Read
    \/ Submit
    \/ UploadToS3
    \/ PollAttempt
    \/ Sleep
    \/ GetLog
    \/ Verdict
    \/ Staple
    \/ Validate

Spec == Init /\ [][Next]_vars

\* A remote service that answers every request carrying an expired token
\* with an error response (401), which raise_for_status raises on.
PollAttemptAuth ==
    /\ PollAttempt
    /\ Expired(token, clock) => lastPoll' = "error:http"

NextAuth ==
    \/ ParseArgs
    \/ CheckDeps
    \/ MakeJwt
    \/ Sha256Open
    \/ Sha256Read
    \/ Submit
    \/ UploadToS3
    \/ PollAttemptAuth
    \/ Sleep
    \/ GetLog
    \/ Verdict
    \/ Staple
    \/ Validate

SpecAuth == Init /\ [][NextAuth]_vars

\* ---- properties -----------------------------------------------------------
\* number of calls of op so far
CountOp(op) == Cardinality({i \in DOMAIN calls : calls[i].op = op})

\* the operations started after the last poll attempt
RECURSIVE OpsAfterPoll(_)
OpsAfterPoll(cs) ==
    IF cs = <<>> \/ cs[Len(cs)].op = "poll" THEN <<>>
    ELSE OpsAfterPoll(SubSeq(cs, 1, Len(cs) - 1)) \o <<cs[Len(cs)].op>>

IsPrefix(a, b) == Len(a) <= Len(b) /\ a = SubSeq(b, 1, Len(a))

StapleSequence == <<"get_log", "staple", "validate">>

\* C1: poll_status returns only a terminal status, the one read in the last
\* successful poll response; after a response with any other status the loop
\* does not return but sleeps and polls again.
C1_PollReturnsOnlyTerminal ==
    [][ /\ (pc = "poll" /\ pc' = "get_log"
              => status' \in TerminalStatuses /\ status' = lastPoll')
        /\ (pc = "poll" /\ lastPoll' \in Statuses \ TerminalStatuses
              => pc' = "sleep")
        /\ (pc = "sleep" /\ lastPoll \in Statuses \ TerminalStatuses
              => pc' = "poll") ]_vars

\* C2: a poll attempt that fails with an error neither ends the process nor
\* leaves poll_status; after one sleep of the poll interval a new attempt is
\* made, however many attempts failed before.
C2_ErrorKeepsPolling ==
    [][ /\ (pc = "poll" /\ lastPoll' \in PollErrors
              => pc' = "sleep" /\ exitCode' = -1)
        /\ (pc = "sleep" /\ lastPoll \in PollErrors
              => /\ pc' = "poll"
                 /\ exitCode' = -1
                 /\ clock' = clock + interval * ClockRes) ]_vars

\* C3 as stated: in every run where poll_status returned Accepted, get_log,
\* staple and validate are each invoked exactly once, in that order.
C3_AcceptedAlwaysStaplesAndValidates ==
    pc = "done" /\ status = "Accepted" => OpsAfterPoll(calls) = StapleSequence

\* C3 (amended): where poll_status returned Accepted, get_log is called
\* exactly once; staple is invoked exactly once if get_log returned a log
\* whose issues could be listed, and not otherwise; validate is invoked
\* exactly once if staple returned 0, and not otherwise; always in that
\* order, none of the three a second time.
C3_AcceptedStapleSequence ==
    status = "Accepted" =>
        /\ IsPrefix(OpsAfterPoll(calls), StapleSequence)
        /\ \A op \in {"get_log", "staple", "validate"} : CountOp(op) <= 1
        /\ CountOp("staple") = 1 => log \in Logs \ {"malformed"}
        /\ CountOp("validate") = 1 => stapleRc = 0
        /\ pc = "done" =>
             /\ CountOp("get_log") = 1
             /\ err \notin {"get_log", "verdict"} => CountOp("staple") = 1
             /\ stapleRc = 0 => CountOp("validate") = 1

C3_Witness ==
    /\ pc = "done"
    /\ status = "Accepted"
    /\ OpsAfterPoll(calls) = StapleSequence
    /\ stapleRc = 0
    /\ validateRc = 0

\* C4: after a terminal status of Rejected or Invalid neither stapling
\* subprocess is ever invoked and the process ends with a non-zero exit
\* code, whatever the log holds and whether or not its fetch succeeds.
C4_RejectedNeverStaples ==
    status \in {"Rejected", "Invalid"} =>
        /\ CountOp("staple") = 0
        /\ CountOp("validate") = 0
        /\ stapleRc = -1 /\ validateRc = -1
        /\ pc \in {"get_log", "verdict", "done"}
        /\ pc = "done" => exitCode # 0 /\ exitCode # -1

C4_Witness ==
    /\ pc = "done"
    /\ status = "Invalid"
    /\ log = "warnings"
    /\ exitCode = 1

\* C5 as stated: the exit code is 0 exactly when the status was Accepted
\* and both stapling steps returned 0, and 1 in every other case.
C5_ExitZeroIffStapled ==
    pc = "done" =>
        /\ exitCode \in {0, 1}
        /\ exitCode = 0 <=> (status = "Accepted" /\ stapleRc = 0 /\ validateRc = 0)

\* C5 (amended): a run whose command line the argument parser accepts ends
\* with exit code 0 exactly when the status was Accepted and both stapling
\* steps returned 0, and with 1 in every other case; a command line the
\* parser rejects ends with 2 and --help with 0, before any stage has run.
C5_ExitCodes ==
    pc = "done" =>
        IF argv = "ok"
        THEN /\ exitCode \in {0, 1}
             /\ exitCode = 0 <=>
                  (status = "Accepted" /\ stapleRc = 0 /\ validateRc = 0)
        ELSE /\ exitCode = (IF argv = "help" THEN 0 ELSE 2)
             /\ jwtCalls = 0
             /\ calls = <<>>
             /\ status = ""

C5_Witness ==
    /\ pc = "done"
    /\ argv = "ok"
    /\ exitCode = 0
    /\ status = "Accepted"
    /\ CountOp("validate") = 1

\* C6 as stated: with a dependency missing the process exits with code 1
\* and nothing later is done: no token, no remote call, no subprocess.
C6_MissingDepExitsOne ==
    missing # {} =>
        /\ jwtCalls = 0
        /\ calls = <<>>
        /\ pc = "done" => exitCode = 1

\* C6 (amended): with a dependency missing no token is created and no
\* submit, upload, poll, log fetch or stapling is ever performed; the process
\* exits with code 1 when the argument parser accepted the command line
\* (the parser runs before the dependency check and ends a run it rejects
\* with 2, a --help run with 0).
C6_MissingDepStopsRun ==
    missing # {} =>
        /\ jwtCalls = 0
        /\ token = NoToken
        /\ calls = <<>>
        /\ pc \in {"parse_args", "check_deps", "done"}
        /\ pc = "done" /\ argv = "ok" => exitCode = 1

C6_Witness ==
    /\ pc = "done"
    /\ argv = "ok"
    /\ missing = {"requests"}
    /\ exitCode = 1

\* C7: get_log is called at most once, only after poll_status has returned,
\* hence never before a status was observed nor while the last observed
\* status is non-terminal; it is called for every terminal verdict.
C7_LogAfterTerminal ==
    /\ CountOp("get_log") <= 1
    /\ CountOp("get_log") = 1 =>
         /\ lastPoll \in TerminalStatuses
         /\ status = lastPoll
         /\ CountOp("poll") >= 1
         /\ OpsAfterPoll(calls)[1] = "get_log"
         /\ pc \notin {"poll", "sleep"}
    /\ pc \in {"verdict", "staple", "validate"} => CountOp("get_log") = 1
    /\ pc = "done" /\ status # "" => CountOp("get_log") = 1

C7_Witness ==
    /\ CountOp("get_log") = 1
    /\ CountOp("poll") >= 2
    /\ status = "Rejected"
    /\ pc = "verdict"

\* C8: make_jwt is called once, before the first remote call, and submit,
\* every poll attempt and the log request carry that one token, which is the
\* token main still holds: it is never refreshed, replaced or modified.
C8_OneToken ==
    /\ jwtCalls <= 1
    /\ calls # <<>> => jwtCalls = 1 /\ token # NoToken
    /\ \A i \in DOMAIN calls :
         calls[i].op \in {"submit", "poll", "get_log"} =>
             /\ calls[i].token = token
             /\ calls[i].token = calls[1].token

C8_Witness ==
    /\ CountOp("poll") >= 2
    /\ CountOp("get_log") = 1
    /\ interval > 0
    /\ clock >= interval * ClockRes

\* C9: the token's exp is exactly 1200 seconds after its iat, and iat is the
\* whole second of the clock at which make_jwt ran.
C9_ExpiryAfterIssue ==
    [][token' # token =>
         /\ token'.exp = token'.iat + 1200
         /\ token'.iat * ClockRes <= clock
         /\ clock < (token'.iat + 1) * ClockRes]_vars

C9_Witness ==
    /\ token # NoToken
    /\ token.iat > 0
    /\ token.exp = token.iat + 1200
    /\ clock % ClockRes # 0

\* C10: the digest is a function of the bytes of the file alone, the same as
\* hashing the whole content at once, and for the empty file the digest of
\* the empty input; while streaming, the hash object holds the bytes read.
C10_DigestOfContent ==
    /\ pc = "sha256_read" => h = RTake(file, fpos) /\ fpos <= RLen(file)
    /\ sha256 # NoDigest =>
         /\ sha256 = HexDigest(Sha256Update(Sha256New, file))
         /\ sha256.of = file
         /\ file = <<>> => sha256 = HexDigest(Sha256New)

C10_Witness ==
    /\ sha256 # NoDigest
    /\ RLen(file) > 2 * ChunkSize
    /\ Len(file) = 2

\* the operations started so far, in order
OpsOf(cs) == [i \in DOMAIN cs |-> cs[i].op]

\* C11: submit and upload_to_s3 are each called at most once; when one of
\* them fails the run ends with a non-zero exit code and nothing later is
\* done: no upload after a failed submit, no poll, log fetch or stapling.
C11_SubmitUploadNotRetried ==
    /\ CountOp("submit") <= 1
    /\ CountOp("upload") <= 1
    /\ err = "submit" =>
         /\ pc = "done" /\ exitCode = 1
         /\ OpsOf(calls) = <<"submit">>
    /\ err = "upload_to_s3" =>
         /\ pc = "done" /\ exitCode = 1
         /\ OpsOf(calls) = <<"submit", "upload">>
    /\ err \in {"submit", "upload_to_s3"} =>
         attempt = 0 /\ status = "" /\ log = "" /\ stapleRc = -1

C11_Witness ==
    /\ pc = "done"
    /\ err = "upload_to_s3"
    /\ CountOp("upload") = 1
    /\ exitCode = 1

\* C12: a non-zero return code of staple ends the process with exit code 1
\* without validate being invoked; a zero staple followed by a non-zero
\* validate ends it with exit code 1; validate is invoked only after staple
\* returned zero.
C12_StaplingFailureFatal ==
    /\ stapleRc \notin {-1, 0} =>
         /\ pc = "done" /\ exitCode = 1
         /\ CountOp("validate") = 0 /\ validateRc = -1
    /\ validateRc \notin {-1, 0} => pc = "done" /\ exitCode = 1 /\ stapleRc = 0
    /\ CountOp("validate") >= 1 =>
         /\ stapleRc = 0
         /\ \E i, j \in DOMAIN calls :
              i < j /\ calls[i].op = "staple" /\ calls[j].op = "validate"
    /\ pc = "validate" => stapleRc = 0

C12_Witness ==
    /\ pc = "done"
    /\ stapleRc = 0
    /\ validateRc = 1
    /\ exitCode = 1

\* C16: get_log is not retried and gates stapling: when it fails after a
\* terminal status the run ends with a non-zero exit code after that one
\* call and, also for Accepted, neither staple nor validate is invoked.
C16_LogFailureStopsRun ==
    err = "get_log" =>
        /\ pc = "done"
        /\ exitCode = 1
        /\ status \in TerminalStatuses
        /\ CountOp("get_log") = 1
        /\ calls[Len(calls)].op = "get_log"
        /\ CountOp("staple") = 0 /\ CountOp("validate") = 0
        /\ stapleRc = -1 /\ validateRc = -1

C16_Witness ==
    /\ pc = "done"
    /\ err = "get_log"
    /\ status = "Accepted"
    /\ exitCode = 1

\* the stage a position of main belongs to: 1 dependency check, 2 token,
\* 3 digest, 4 submission, 5 upload, 6 polling, 7 log fetch, 8 stapling
StageRank(p) ==
    CASE p = "parse_args" -> 0
      [] p = "check_deps" -> 1
      [] p = "make_jwt" -> 2
      [] p \in {"sha256_open", "sha256_read"} -> 3
      [] p = "submit" -> 4
      [] p = "upload" -> 5
      [] p \in {"poll", "sleep"} -> 6
      [] p \in {"get_log", "verdict"} -> 7
      [] p \in {"staple", "validate"} -> 8
      [] OTHER -> 9

OpRank(op) ==
    CASE op = "submit" -> 4
      [] op = "upload" -> 5
      [] op = "poll" -> 6
      [] op = "get_log" -> 7
      [] op \in {"staple", "validate"} -> 8
      [] OTHER -> 9

\* the steps inside one stage
StepsInStage ==
    { <<"sha256_open", "sha256_read">>, <<"poll", "sleep">>,
      <<"sleep", "poll">>, <<"get_log", "verdict">>,
      <<"staple", "validate">> }

\* C13: the stages run in the order dependency check, token, digest,
\* submission, upload, polling, log fetch, stapling: main moves from a stage
\* only to the next one or to the end of the run, a stage starts only while
\* nothing has failed, and nothing but a poll attempt is done twice.
C13_StagesInOrder ==
    /\ [](/\ pc # "done" => err = "" /\ exitCode = -1
          /\ jwtCalls <= 1
          /\ \A op \in {"submit", "upload", "get_log", "staple", "validate"} :
               CountOp(op) <= 1
          /\ \A i, j \in DOMAIN calls :
               i < j => /\ OpRank(calls[i].op) <= OpRank(calls[j].op)
                        /\ OpRank(calls[i].op) = OpRank(calls[j].op)
                             => \/ calls[i].op = "poll"
                                \/ /\ calls[i].op = "staple"
                                   /\ calls[j].op = "validate"
          /\ calls # <<>> => jwtCalls = 1 /\ sha256 # NoDigest
          /\ jwtCalls = 1 => missing = {})
    /\ [][/\ pc' # pc =>
               \/ pc' = "done"
               \/ StageRank(pc') = StageRank(pc) + 1
               \/ <<pc, pc'>> \in StepsInStage
          /\ sha256 # NoDigest => sha256' = sha256
          /\ jwtCalls' # jwtCalls => pc = "make_jwt"
          /\ Len(calls') > Len(calls) =>
               OpRank(calls'[Len(calls')].op) = StageRank(pc)]_vars

C13_Witness ==
    /\ pc = "done"
    /\ exitCode = 0
    /\ OpsOf(calls) = <<"submit", "upload", "poll", "poll", "get_log",
                        "staple", "validate">>

\* C14: poll_status is left only by returning a terminal status: as long as
\* no poll response carries Accepted, Rejected or Invalid the run stays in
\* the loop, attempt after attempt, whatever the attempts end in.
C14_LoopLeftOnlyOnTerminal ==
    [][(pc \in {"poll", "sleep"}) =>
         ( \/ (pc' \in {"poll", "sleep"} /\ exitCode' = -1
                /\ attempt' >= attempt)
           \/ (pc' = "get_log" /\ lastPoll' \in TerminalStatuses) )]_vars

\* C15: once the token has expired while the run is in poll_status, every
\* poll attempt fails and is retried: the run stays in the loop and reaches
\* neither the log fetch, nor stapling, nor an exit code.
C15_ExpiredTokenPollsForever ==
    [][(pc \in {"poll", "sleep"} /\ Expired(token, clock)) =>
         /\ pc' \in {"poll", "sleep"}
         /\ exitCode' = -1
         /\ status' = ""
         /\ (pc = "poll" => lastPoll' \in PollErrors /\ pc' = "sleep")]_vars
====
